---- MODULE Spec2Model ----
(***************************************************************************)
(* A model of wt.py, the work timer.  The persisted state file (wt.json)   *)
(* is the record `timer`; the activity log (info-log) is the sequence      *)
(* `info_log`.  Every command of the command line is one action that runs  *)
(* the whole handler: load, compute, every save it makes.                  *)
(*                                                                         *)
(* Timestamps.  A datetime is a record [min, sec]: whole minutes since an  *)
(* arbitrary origin and the part of the minute that DT_FORMAT does not     *)
(* keep.  A timestamp string is <<>> (the empty string) or <<m>> (the      *)
(* datetime formatted with DT_FORMAT, which keeps the minutes only).       *)
(*                                                                         *)
(* Command-line strings.  A time string or a cycle number is a sequence of *)
(* characters; a character is a digit 0..9 or NonDigit.  None is the       *)
(* absent argument.                                                        *)
(***************************************************************************)
EXTENDS Integers, Sequences, FiniteSets, TLC

\* ------------------------------------------------------------------ bounds
MaxTime == 3        \* the clock runs from minute 0 to MaxTime; mod start keeps
                    \* day_start in that range and mod <n> add keeps an entry
                    \* no longer than it
MaxLen == 3         \* commands that would make the timeline longer are not issued
MaxEdits == 1       \* mod commands that change the state file, per state file
MaxDropLen == 5     \* the longest timeline of SpecDrop
MaxDrops == 2       \* drops per state file in SpecDrop

\* ------------------------------------------------------- program constants
SecondsPerMinute == 60
MinutesPerHour == 60
MinutesPerDay == 1440
MaxMinuteField == 59
MaxTimeStringLen == 4

NonDigit == 10
None == <<0 - 1>>

Stopped == "stopped"
Paused == "paused"
Running == "running"

Silent == "silent"
Normal == "normal"
Verbose == "verbose"

\* ------------------------------------------------------------ time helpers
DT(m, s) == [min |-> m, sec |-> s]
Seconds(d) == d.min * SecondsPerMinute + d.sec

\* dt.strftime(DT_FORMAT): the seconds are dropped
strftime(d) == <<d.min>>
\* dt.strptime(s, DT_FORMAT)
strptime(s) == DT(s[1], 0)
\* d - timedelta(minutes=m)
minus_minutes(d, m) == DT(d.min - m, d.sec)
plus_minutes(d, m) == DT(d.min + m, d.sec)

delta_minutes(start_dt, now_dt) == (Seconds(now_dt) - Seconds(start_dt)) \div SecondsPerMinute

hour_minute_to_minutes(hours, minutes) == hours * MinutesPerHour + minutes

\* ------------------------------------------------------- command-line text
isdigit(s) == Len(s) > 0 /\ \A i \in 1..Len(s) : s[i] \in 0..9

RECURSIVE int_of(_)
int_of(s) == IF Len(s) = 0 THEN 0 ELSE 10 * int_of(SubSeq(s, 1, Len(s) - 1)) + s[Len(s)]

string_time_to_minutes(time) ==
    LET hour == CASE Len(time) = 4 -> int_of(SubSeq(time, 1, 2))
                  [] Len(time) = 3 -> int_of(SubSeq(time, 1, 1))
                  [] OTHER -> 0
        minute == CASE Len(time) = 4 -> int_of(SubSeq(time, 3, 4))
                    [] Len(time) = 3 -> int_of(SubSeq(time, 2, 3))
                    [] Len(time) \in {1, 2} -> int_of(time)
                    [] OTHER -> 0
    IN  hour_minute_to_minutes(hour, minute)

\* TRUE when validate_timestring_or_quit returns, FALSE when it quits
validate_timestring_or_quit(time) ==
    /\ ~(Len(time) < 1 \/ Len(time) > MaxTimeStringLen \/ ~isdigit(time))
    /\ (Len(time) >= 2 => int_of(SubSeq(time, Len(time) - 1, Len(time))) <= MaxMinuteField)

\* -------------------------------------------------------------- the record
Timer(status, start, stop, accumulatedMinutes, mode, timeline, dayStart, cycleStart) ==
    [status |-> status,
     start_datetime_str |-> start,
     stop_datetime_str |-> stop,
     paused_minutes |-> accumulatedMinutes,
     mode |-> mode,
     timeline |-> timeline,
     day_start |-> dayStart,
     cycle_start_datetime_str |-> cycleStart]

\* Timer() with the defaults of __init__
NewTimer == Timer(Stopped, <<>>, <<>>, 0, Silent, <<>>, <<>>, <<>>)

WorkEntry(minutes, paused, total) ==
    [type |-> "work", minutes |-> minutes, paused_minutes |-> paused, total_minutes |-> total]
BreakEntry(minutes) == [type |-> "break", minutes |-> minutes]

\* entry.get("paused_minutes", d) and entry.get("total_minutes", d)
get_paused_minutes(entry, d) ==
    IF "paused_minutes" \in DOMAIN entry THEN entry.paused_minutes ELSE d
get_total_minutes(entry, d) ==
    IF "total_minutes" \in DOMAIN entry THEN entry.total_minutes ELSE d

RECURSIVE SumWork(_)
SumWork(tl) ==
    IF Len(tl) = 0 THEN 0
    ELSE SumWork(SubSeq(tl, 1, Len(tl) - 1))
         + (IF tl[Len(tl)].type = "work" THEN tl[Len(tl)].minutes ELSE 0)

completed_minutes(t) == SumWork(t.timeline)

calculate_current_minutes(t, now_dt) ==
    IF t.status = Stopped \/ t.cycle_start_datetime_str = <<>> THEN 0
    ELSE LET total_elapsed == delta_minutes(strptime(t.cycle_start_datetime_str), now_dt)
             total_paused ==
                 IF t.status = Paused
                 THEN t.paused_minutes + delta_minutes(strptime(t.start_datetime_str), now_dt)
                 ELSE t.paused_minutes
             work_minutes == total_elapsed - total_paused
         IN  IF work_minutes > 0 THEN work_minutes ELSE 0

\* ------------------------------------------------------------ activity log
\* strftime(TIME_ONLY_FORMAT) keeps the time of day; .date() keeps the day
time_only(d) == d.min % MinutesPerDay
date(d) == d.min \div MinutesPerDay

mintues_to_hour_minute_str(mins) == <<mins \div MinutesPerHour, mins % MinutesPerHour>>

day_indicator(start_dt, stop_dt) ==
    LET day_diff == date(stop_dt) - date(start_dt)
    IN  IF day_diff > 0 THEN day_diff ELSE 0

\* "[start => end] Work: cycle, Paused: paused (total) [+n day]"; the Paused
\* part is printed only when paused_mins > 0
WorkLine(start_dt, stop_dt, work_mins, paused_mins, running_total) ==
    [text |-> "Work",
     start |-> time_only(start_dt),
     end |-> time_only(stop_dt),
     cycle |-> mintues_to_hour_minute_str(work_mins),
     paused |-> IF paused_mins > 0 THEN <<mintues_to_hour_minute_str(paused_mins)>> ELSE <<>>,
     total |-> mintues_to_hour_minute_str(running_total),
     day |-> day_indicator(start_dt, stop_dt)]

\* "[start => end] Break: cycle"
BreakLine(start_dt, stop_dt, duration_mins) ==
    [text |-> "Break",
     start |-> time_only(start_dt),
     end |-> time_only(stop_dt),
     cycle |-> mintues_to_hour_minute_str(duration_mins)]

\* "Work: cycle, Paused: paused (total)", the line of stop without day_start
PlainWorkLine(work_mins, paused_mins, running_total) ==
    [text |-> "Work",
     cycle |-> mintues_to_hour_minute_str(work_mins),
     paused |-> IF paused_mins > 0 THEN <<mintues_to_hour_minute_str(paused_mins)>> ELSE <<>>,
     total |-> mintues_to_hour_minute_str(running_total)]

\* the span an entry takes on the replayed clock
EntrySpan(entry) ==
    IF entry.type = "work"
    THEN get_total_minutes(entry, entry.minutes + get_paused_minutes(entry, 0))
    ELSE entry.minutes

\* the loop of regenerate_info_log over timeline[i..], with its two accumulators
RECURSIVE RegenerateFrom(_, _, _, _)
RegenerateFrom(tl, i, current_time, running_total) ==
    IF i > Len(tl) THEN <<>>
    ELSE LET entry == tl[i]
             stop_dt == plus_minutes(current_time, EntrySpan(entry))
         IN  IF entry.type = "work"
             THEN <<WorkLine(current_time, stop_dt, entry.minutes,
                             get_paused_minutes(entry, 0), running_total + entry.minutes)>>
                  \o RegenerateFrom(tl, i + 1, stop_dt, running_total + entry.minutes)
             ELSE <<BreakLine(current_time, stop_dt, entry.minutes)>>
                  \o RegenerateFrom(tl, i + 1, stop_dt, running_total)

\* the content of the info-log after regenerate_info_log(timer)
regenerate_info_log(t, now_dt) ==
    IF Len(t.timeline) = 0 THEN <<>>
    ELSE RegenerateFrom(t.timeline, 1,
                        IF t.day_start # <<>> THEN strptime(t.day_start) ELSE now_dt, 0)

\* ---------------------------------------------------------------- history
\* the loop of history over the timeline: entry["minutes"] of every entry
RECURSIVE SumMinutes(_)
SumMinutes(tl) == IF tl = <<>> THEN 0 ELSE Head(tl).minutes + SumMinutes(Tail(tl))

\* the start time history prints on the line of the open cycle
history_cycle_start(t, now_dt) ==
    LET cycle_start_dt ==
            IF t.day_start # <<>>
            THEN plus_minutes(strptime(t.day_start), SumMinutes(t.timeline))
            ELSE IF t.start_datetime_str # <<>> THEN strptime(t.start_datetime_str) ELSE now_dt
    IN  time_only(cycle_start_dt)

\* -------------------------------------------------------- command results
\* What a command leaves behind: the state file, whether it exists, the
\* info-log, the message it reported ("" when none), and the states it
\* wrote to the state file, in order.
Result(t, ex, log, msg, writes) ==
    [timer |-> t, exists |-> ex, info_log |-> log, msg |-> msg, writes |-> writes]

NoTimerExists(t, ex, log) == Result(t, ex, log, "No timer exists.", <<>>)

\* ------------------------------------------------------------------- reset
\* reset that does not carry the mode over
reset_forgets_mode(t, ex, log, answer) ==
    IF ex /\ answer # "y" THEN Result(t, ex, log, "quit", <<>>)
    ELSE Result(NewTimer, TRUE, <<>>, "Timer reset.", <<NewTimer>>)

\* answer is the reply to the prompt, asked only when a timer exists
reset(t, ex, log, answer) ==
    IF ex /\ answer # "y" THEN Result(t, ex, log, "quit", <<>>)
    ELSE LET fresh == [NewTimer EXCEPT !.mode = IF ex THEN t.mode ELSE Silent]
         IN  Result(fresh, TRUE, <<>>, "Timer reset.", <<fresh>>)

\* ------------------------------------------------------------------- start
\* the Paused arm of the match: the pause that ends now is added
start_match_status(t, now_dt) ==
    IF t.status = Paused
    THEN [t EXCEPT !.paused_minutes =
              t.paused_minutes + delta_minutes(strptime(t.start_datetime_str), now_dt)]
    ELSE t

is_first_cycle(t) == Len(t.timeline) = 0

\* TRUE when the break since the last stop is shorter than the backdate
start_break_too_short(t, start_time, now_dt) ==
    /\ start_time # None
    /\ ~is_first_cycle(t)
    /\ t.stop_datetime_str # <<>>
    /\ delta_minutes(strptime(t.stop_datetime_str), now_dt) < string_time_to_minutes(start_time)

start_append_break(t, now_dt) ==
    IF t.stop_datetime_str # <<>>
    THEN [t EXCEPT !.timeline =
              Append(t.timeline, BreakEntry(delta_minutes(strptime(t.stop_datetime_str), now_dt)))]
    ELSE t

\* the fields set before the first save
\* variant: every start moves day_start
start_set_running_moves_day_start(t, now_dt) ==
    LET s == strftime(now_dt)
    IN  [t EXCEPT !.stop_datetime_str = <<>>,
                  !.start_datetime_str = s,
                  !.day_start = s,
                  !.cycle_start_datetime_str =
                      IF t.status = Stopped THEN s ELSE t.cycle_start_datetime_str,
                  !.status = Running]

start_set_running(t, now_dt) ==
    LET s == strftime(now_dt)
    IN  [t EXCEPT !.stop_datetime_str = <<>>,
                  !.start_datetime_str = s,
                  !.day_start = IF t.day_start = <<>> THEN s ELSE t.day_start,
                  !.cycle_start_datetime_str =
                      IF t.status = Stopped THEN s ELSE t.cycle_start_datetime_str,
                  !.status = Running]

\* the backdate of the first cycle, applied to the saved state
start_backdate_first(t1, log, minutes, now_dt) ==
    LET new_start_dt == minus_minutes(strptime(t1.start_datetime_str), minutes)
        s == strftime(new_start_dt)
        t2 == [t1 EXCEPT !.start_datetime_str = s,
                         !.cycle_start_datetime_str = s,
                         !.day_start = s]
    IN  IF Seconds(new_start_dt) >= Seconds(now_dt)
        THEN Result(t1, TRUE, log, "Cannot backdate start that far.", <<t1>>)
        ELSE Result(t2, TRUE, log, "", <<t1, t2>>)

\* the backdate of a later cycle: the trailing break is reduced
start_backdate_later(t1, log, minutes, now_dt) ==
    LET n == Len(t1.timeline) IN
    IF n > 0 /\ t1.timeline[n].type = "break"
    THEN LET new_break_mins == t1.timeline[n].minutes - minutes
             s == strftime(minus_minutes(strptime(t1.start_datetime_str), minutes))
             t2 == [t1 EXCEPT !.timeline[n].minutes = new_break_mins,
                              !.start_datetime_str = s,
                              !.cycle_start_datetime_str = s]
         IN  IF new_break_mins < 0
             THEN Result(t1, TRUE, log, "Cannot reduce break below 0.", <<t1>>)
             ELSE Result(t2, TRUE, regenerate_info_log(t2, now_dt), "", <<t1, t2>>)
    ELSE Result(t1, TRUE, log, "", <<t1>>)

\* no time parameter: the log is regenerated when the timeline ends with a break
start_no_time(t1, log, now_dt) ==
    LET n == Len(t1.timeline) IN
    IF n > 0 /\ t1.timeline[n].type = "break"
    THEN Result(t1, TRUE, regenerate_info_log(t1, now_dt), "", <<t1, t1>>)
    ELSE Result(t1, TRUE, log, "", <<t1>>)

start_loaded(t, log, start_time, now_dt, made) ==
    IF t.status = Running THEN Result(t, TRUE, log, "Already running.", made)
    ELSE LET ta == start_match_status(t, now_dt)
             first == is_first_cycle(ta)
         IN  IF start_break_too_short(ta, start_time, now_dt)
             THEN Result(t, TRUE, log, "Cannot reduce break below 0.", made)
             ELSE LET t1 == start_set_running(start_append_break(ta, now_dt), now_dt)
                      r == IF start_time # None
                           THEN IF first
                                THEN start_backdate_first(t1, log, string_time_to_minutes(start_time), now_dt)
                                ELSE start_backdate_later(t1, log, string_time_to_minutes(start_time), now_dt)
                           ELSE start_no_time(t1, log, now_dt)
                  IN  [r EXCEPT !.writes = made \o r.writes]

start(t, ex, log, start_time, now_dt) ==
    IF start_time # None /\ start_time # <<>> /\ ~validate_timestring_or_quit(start_time)
    THEN Result(t, ex, log, "Incorrect time format.", <<>>)
    ELSE IF ex THEN start_loaded(t, log, start_time, now_dt, <<>>)
         ELSE LET r0 == reset(t, ex, log, "y")
              IN  start_loaded(r0.timer, r0.info_log, start_time, now_dt, r0.writes)

\* -------------------------------------------------------------------- stop
\* stop that forgets the pause still running when it is issued while Paused
stop_work_entry_drops_open_pause(t, now_dt) ==
    LET total_paused == t.paused_minutes
        total_cycle_time == delta_minutes(strptime(t.cycle_start_datetime_str), now_dt)
        cycle_minutes == total_cycle_time - total_paused
    IN  WorkEntry(IF cycle_minutes < 0 THEN 0 ELSE cycle_minutes, total_paused, total_cycle_time)

\* variant: the cycle is measured from the segment marker
stop_work_entry_from_segment(t, now_dt) ==
    LET total_paused ==
            IF t.status = Paused
            THEN t.paused_minutes + delta_minutes(strptime(t.start_datetime_str), now_dt)
            ELSE t.paused_minutes
        total_cycle_time == delta_minutes(strptime(t.start_datetime_str), now_dt)
        cycle_minutes == total_cycle_time - total_paused
    IN  WorkEntry(IF cycle_minutes < 0 THEN 0 ELSE cycle_minutes, total_paused, total_cycle_time)

\* the Work entry of the cycle that ends now
stop_work_entry(t, now_dt) ==
    LET total_paused ==
            IF t.status = Paused
            THEN t.paused_minutes + delta_minutes(strptime(t.start_datetime_str), now_dt)
            ELSE t.paused_minutes
        total_cycle_time == delta_minutes(strptime(t.cycle_start_datetime_str), now_dt)
        cycle_minutes == total_cycle_time - total_paused
    IN  WorkEntry(IF cycle_minutes < 0 THEN 0 ELSE cycle_minutes, total_paused, total_cycle_time)

\* stop that forgets to reset the paused minutes of the cycle
stop_clear_keeps_paused(t, now_dt) ==
    [t EXCEPT !.stop_datetime_str = strftime(now_dt),
              !.start_datetime_str = <<>>,
              !.cycle_start_datetime_str = <<>>,
              !.status = Stopped]

stop_clear(t, now_dt) ==
    [t EXCEPT !.stop_datetime_str = strftime(now_dt),
              !.start_datetime_str = <<>>,
              !.cycle_start_datetime_str = <<>>,
              !.paused_minutes = 0,
              !.status = Stopped]

\* the span stop gives an earlier entry when it replays the timeline
StopSpan(entry) ==
    IF entry.type = "work" THEN get_total_minutes(entry, entry.minutes) ELSE entry.minutes

RECURSIVE SumSpans(_, _)
SumSpans(tl, n) == IF n = 0 THEN 0 ELSE SumSpans(tl, n - 1) + StopSpan(tl[n])

\* the line stop appends to the info-log; t2 is the timer with the new entry
stop_log_line(t2) ==
    LET n == Len(t2.timeline)
        e == t2.timeline[n]
    IN  IF t2.day_start # <<>>
        THEN LET start_dt == plus_minutes(strptime(t2.day_start), SumSpans(t2.timeline, n - 1))
                 end_dt == plus_minutes(start_dt, e.total_minutes)
             IN  WorkLine(start_dt, end_dt, e.minutes, e.paused_minutes, completed_minutes(t2))
        ELSE PlainWorkLine(e.minutes, e.paused_minutes, completed_minutes(t2))

stop(t, ex, log, now_dt) ==
    IF ~ex THEN NoTimerExists(t, ex, log)
    ELSE IF t.status = Stopped THEN Result(t, ex, log, "Timer already stopped.", <<>>)
    ELSE LET t2 == stop_clear([t EXCEPT !.timeline = Append(t.timeline, stop_work_entry(t, now_dt))],
                              now_dt)
         IN  Result(t2, ex, Append(log, stop_log_line(t2)), "", <<t2>>)

\* ------------------------------------------------------------------- pause
\* variant: pausing forgets the pauses counted so far
pause_set_clears_paused(t, now_dt) ==
    [t EXCEPT !.start_datetime_str = strftime(now_dt), !.status = Paused, !.paused_minutes = 0]

pause_set(t, now_dt) ==
    [t EXCEPT !.start_datetime_str = strftime(now_dt), !.status = Paused]

\* pause that does not turn away a stopped timer
pause_pauses_stopped(t, ex, log, now_dt) ==
    IF ~ex THEN NoTimerExists(t, ex, log)
    ELSE CASE t.status = Paused -> Result(t, ex, log, "Timer already paused.", <<>>)
           [] OTHER -> LET t2 == pause_set(t, now_dt) IN Result(t2, ex, log, "", <<t2>>)

pause(t, ex, log, now_dt) ==
    IF ~ex THEN NoTimerExists(t, ex, log)
    ELSE CASE t.status = Paused -> Result(t, ex, log, "Timer already paused.", <<>>)
           [] t.status = Stopped -> Result(t, ex, log, "Cannot pause stopped timer.", <<>>)
           [] OTHER -> LET t2 == pause_set(t, now_dt) IN Result(t2, ex, log, "", <<t2>>)

\* -------------------------------------------------------------------- next
next_append_break(t) == [t EXCEPT !.timeline = Append(t.timeline, BreakEntry(0))]

\* next that leaves the stop marker stop() has just set
next_set_running_keeps_stop_marker(t, now_dt) ==
    [t EXCEPT !.start_datetime_str = strftime(now_dt),
              !.cycle_start_datetime_str = strftime(now_dt),
              !.paused_minutes = 0,
              !.status = Running]

next_set_running(t, now_dt) ==
    [t EXCEPT !.stop_datetime_str = <<>>,
              !.start_datetime_str = strftime(now_dt),
              !.cycle_start_datetime_str = strftime(now_dt),
              !.paused_minutes = 0,
              !.status = Running]

next_timer(t, ex, log, now_dt) ==
    IF ~ex THEN NoTimerExists(t, ex, log)
    ELSE LET r == stop(t, ex, log, now_dt)
             tb == next_append_break(r.timer)
             t2 == next_set_running(tb, now_dt)
         IN  Result(t2, ex, regenerate_info_log(tb, now_dt), "", r.writes \o <<tb, t2>>)

\* --------------------------------------------------------------- mod start
has_work_cycles(tl) == \E i \in 1..Len(tl) : tl[i].type = "work"

shift(ts, operation, minutes) ==
    IF operation = "sub" THEN strftime(minus_minutes(strptime(ts), minutes))
    ELSE strftime(plus_minutes(strptime(ts), minutes))

mod_start_apply(t, operation, minutes) ==
    LET t1 == [t EXCEPT !.day_start = shift(t.day_start, operation, minutes)]
    IN  IF t1.status = Running /\ t1.start_datetime_str # <<>> /\ ~has_work_cycles(t1.timeline)
        THEN [t1 EXCEPT !.start_datetime_str = shift(t1.start_datetime_str, operation, minutes)]
        ELSE t1

mod_start(t, ex, log, operation, time_str, now_dt) ==
    IF ~ex THEN NoTimerExists(t, ex, log)
    ELSE IF t.status # Stopped THEN Result(t, ex, log, "Cannot modify while timer is running or paused.", <<>>)
    ELSE IF t.day_start = <<>> THEN Result(t, ex, log, "No day_start to modify.", <<>>)
    ELSE IF operation \notin {"add", "sub"} THEN Result(t, ex, log, "Invalid operation.", <<>>)
    ELSE IF ~isdigit(time_str) THEN Result(t, ex, log, "Invalid time format.", <<>>)
    ELSE LET t2 == mod_start_apply(t, operation, string_time_to_minutes(time_str))
         IN  Result(t2, ex, regenerate_info_log(t2, now_dt), "", <<t2>>)

\* ------------------------------------------------------------ mod <n> add/sub
cycle_exists(t, cycle_num) == ~(cycle_num < 1 \/ cycle_num > Len(t.timeline))

\* the entry with its new duration; total_minutes follows for a work entry
resize_entry(entry, new_minutes) ==
    LET e1 == [entry EXCEPT !.minutes = new_minutes]
    IN  IF e1.type = "work"
        THEN ("total_minutes" :> (e1.minutes + get_paused_minutes(e1, 0))) @@ e1
        ELSE e1

\* mod <n> sub without the check of the new duration
duration_negative_unchecked(entry, operation, minutes) == FALSE

duration_negative(entry, operation, minutes) ==
    operation # "add" /\ entry.minutes - minutes < 0

\* mod <n> sub that adds, as mod <n> add does
mod_duration_apply_sub_adds(t, entry_idx, operation, minutes) ==
    LET entry == t.timeline[entry_idx]
    IN  [t EXCEPT !.timeline[entry_idx] = resize_entry(entry, entry.minutes + minutes)]

mod_duration_apply(t, entry_idx, operation, minutes) ==
    LET entry == t.timeline[entry_idx]
    IN  [t EXCEPT !.timeline[entry_idx] =
            IF operation = "add" THEN resize_entry(entry, entry.minutes + minutes)
            ELSE resize_entry(entry, entry.minutes - minutes)]

\* variant: the log is rewritten from the timeline as it was before the edit
mod_duration_stale_log(t, ex, log, cycle_num_str, operation, time_str, now_dt) ==
    IF ~ex THEN NoTimerExists(t, ex, log)
    ELSE IF t.status # Stopped THEN Result(t, ex, log, "Cannot modify while timer is running or paused.", <<>>)
    ELSE IF ~isdigit(cycle_num_str) THEN Result(t, ex, log, "Invalid cycle number.", <<>>)
    ELSE IF ~cycle_exists(t, int_of(cycle_num_str)) THEN Result(t, ex, log, "Cycle does not exist.", <<>>)
    ELSE IF operation \notin {"add", "sub"} THEN Result(t, ex, log, "Invalid operation.", <<>>)
    ELSE IF ~isdigit(time_str) THEN Result(t, ex, log, "Invalid time format.", <<>>)
    ELSE IF duration_negative(t.timeline[int_of(cycle_num_str)], operation, string_time_to_minutes(time_str))
         THEN Result(t, ex, log, "Error: Duration would be negative.", <<>>)
    ELSE LET t2 == mod_duration_apply(t, int_of(cycle_num_str), operation, string_time_to_minutes(time_str))
         IN  Result(t2, ex, regenerate_info_log(t, now_dt), "", <<t2>>)

mod_duration(t, ex, log, cycle_num_str, operation, time_str, now_dt) ==
    IF ~ex THEN NoTimerExists(t, ex, log)
    ELSE IF t.status # Stopped THEN Result(t, ex, log, "Cannot modify while timer is running or paused.", <<>>)
    ELSE IF ~isdigit(cycle_num_str) THEN Result(t, ex, log, "Invalid cycle number.", <<>>)
    ELSE IF ~cycle_exists(t, int_of(cycle_num_str)) THEN Result(t, ex, log, "Cycle does not exist.", <<>>)
    ELSE IF operation \notin {"add", "sub"} THEN Result(t, ex, log, "Invalid operation.", <<>>)
    ELSE IF ~isdigit(time_str) THEN Result(t, ex, log, "Invalid time format.", <<>>)
    ELSE IF duration_negative(t.timeline[int_of(cycle_num_str)], operation, string_time_to_minutes(time_str))
         THEN Result(t, ex, log, "Error: Duration would be negative.", <<>>)
    ELSE LET t2 == mod_duration_apply(t, int_of(cycle_num_str), operation, string_time_to_minutes(time_str))
         IN  Result(t2, ex, regenerate_info_log(t2, now_dt), "", <<t2>>)

\* ---------------------------------------------------------------- mod <n> drop
\* list.pop(i), with i counted from 1
Pop(seq, i) == SubSeq(seq, 1, i - 1) \o SubSeq(seq, i + 1, Len(seq))

\* a drop that merges whenever the entry has an entry on both sides
flanked_by_any(tl, i) == i > 1 /\ i < Len(tl)

\* TRUE when the entry at i has entries of the other kind on both sides
flanked(tl, i) ==
    LET other == IF tl[i].type = "break" THEN "work" ELSE "break"
    IN  /\ i > 1 /\ tl[i - 1].type = other
        /\ i < Len(tl) /\ tl[i + 1].type = other

\* what the message of a drop adds when it has merged ("" when it has not)
merge_msg(tl, i) ==
    IF ~flanked(tl, i) THEN ""
    ELSE IF tl[i].type = "break" THEN "merged adjacent work cycles"
    ELSE "merged adjacent breaks"

\* a drop that merges without summing the minutes of the entry it removes
mod_drop_timeline_merge_keeps_first(tl, i) ==
    IF flanked(tl, i) THEN Pop(Pop(tl, i + 1), i) ELSE Pop(tl, i)

mod_drop_timeline(tl, i) ==
    IF flanked(tl, i)
    THEN LET merged_mins == tl[i - 1].minutes + tl[i + 1].minutes
             tl1 == [tl EXCEPT ![i - 1].minutes = merged_mins]
         IN  Pop(Pop(tl1, i + 1), i)
    ELSE Pop(tl, i)

\* mod <n> drop without the check of the status
mod_drop_any_status(t, ex, log, cycle_num_str, now_dt) ==
    IF ~ex THEN NoTimerExists(t, ex, log)
    ELSE IF ~isdigit(cycle_num_str) THEN Result(t, ex, log, "Invalid cycle number.", <<>>)
    ELSE IF ~cycle_exists(t, int_of(cycle_num_str)) THEN Result(t, ex, log, "Cycle does not exist.", <<>>)
    ELSE LET t2 == [t EXCEPT !.timeline = mod_drop_timeline(t.timeline, int_of(cycle_num_str))]
         IN  Result(t2, ex, regenerate_info_log(t2, now_dt),
                    merge_msg(t.timeline, int_of(cycle_num_str)), <<t2>>)

mod_drop(t, ex, log, cycle_num_str, now_dt) ==
    IF ~ex THEN NoTimerExists(t, ex, log)
    ELSE IF t.status # Stopped THEN Result(t, ex, log, "Cannot modify while timer is running or paused.", <<>>)
    ELSE IF ~isdigit(cycle_num_str) THEN Result(t, ex, log, "Invalid cycle number.", <<>>)
    ELSE IF ~cycle_exists(t, int_of(cycle_num_str)) THEN Result(t, ex, log, "Cycle does not exist.", <<>>)
    ELSE LET t2 == [t EXCEPT !.timeline = mod_drop_timeline(t.timeline, int_of(cycle_num_str))]
         IN  Result(t2, ex, regenerate_info_log(t2, now_dt),
                    merge_msg(t.timeline, int_of(cycle_num_str)), <<t2>>)

\* --------------------------------------------------- restart, remove, mode
restart(t, ex, log, start_time, answer, now_dt) ==
    IF start_time # None /\ start_time # <<>> /\ ~validate_timestring_or_quit(start_time)
    THEN Result(t, ex, log, "Incorrect time format.", <<>>)
    ELSE LET r0 == reset(t, ex, log, answer)
         IN  IF r0.msg = "quit" THEN r0
             ELSE LET r1 == start(r0.timer, r0.exists, r0.info_log, start_time, now_dt)
                  IN  [r1 EXCEPT !.writes = r0.writes \o r1.writes]

remove(t, ex, log, answer) ==
    IF ~ex THEN NoTimerExists(t, ex, log)
    ELSE IF answer # "y" THEN Result(t, ex, log, "quit", <<>>)
    ELSE Result(NewTimer, FALSE, <<>>, "Timer removed.", <<>>)

mode_select(t, ex, log, mode) ==
    IF mode \notin {Silent, Normal, Verbose} THEN Result(t, ex, log, "Unhandled mode.", <<>>)
    ELSE IF ~ex THEN NoTimerExists(t, ex, log)
    ELSE LET t2 == [t EXCEPT !.mode = mode] IN Result(t2, ex, log, "", <<t2>>)

\* ------------------------------------------------------------------- main
\* a first argument that main matches with no command: add and sub are such
main_invalid(t, ex, log) == Result(t, ex, log, "Invalid command.", <<>>)

\* ================================================================== state
VARIABLES
    timer,        \* the content of the state file wt.json
    exists,       \* whether the state file exists
    info_log,     \* the lines of the info-log
    now,          \* the clock, in whole minutes
    last,         \* the command that made the last step and the message it
                  \* reported (NoCommand after a step of the clock)
    ever_work,    \* a Work entry has been recorded since the file was created
    plain,        \* only start (no time), pause and stop were issued on this file
    cycle_wall,   \* minutes of the clock spent inside cycles, counted while plain
    paused_wall,  \* minutes of the clock spent Paused, counted while plain
    edits,        \* mod commands that have changed this state file
    procs         \* the invocations of wt that run side by side: where each
                  \* one is, its command, the state it loaded, its message and
                  \* the invocations that saved since it loaded

vars ==
    <<timer, exists, info_log, now, last, ever_work, plain, cycle_wall, paused_wall, edits, procs>>

\* ----------------------------------------------------------------- inputs
SecondsOfMinute == {0, 30}
StartTimes == {None, <<0>>, <<1>>, <<2>>, <<6, 0>>}
Answers == {"y", "n"}
Modes == {Normal, Verbose, "loud"}
ModStartInputs ==
    ({"add", "sub"} \X {<<1>>, <<2>>}) \cup {<<"mul", <<1>>>>, <<"add", <<NonDigit>>>>}
ModDurationInputs ==
    ({<<n>> : n \in 1..MaxLen} \X {"add", "sub"} \X {<<1>>, <<2>>})
    \cup {<<<<0>>, "add", <<1>>>>, <<<<0>>, "sub", <<1>>>>, <<<<NonDigit>>, "add", <<1>>>>,
          <<<<1>>, "mul", <<1>>>>, <<<<1>>, "sub", <<NonDigit>>>>,
          <<<<1>>, "add", <<0, 0, 0, 0, 1>>>>}
ModDropInputs == {<<n>> : n \in 0..MaxLen} \cup {<<NonDigit>>}

AdjustInputs == {"add", "sub"} \X {<<1>>, <<2>>}

Command(cmd, msg) == [cmd |-> cmd, msg |-> msg]

\* no command has run since the clock last moved
NoCommand == Command("none", "")

\* two invocations of wt; one that is not running has loaded nothing
Procs == {1, 2}
IdleProc == [pc |-> "idle", cmd |-> "none", timer |-> NewTimer, msg |-> "", behind |-> {}]

Init ==
    /\ procs = [p \in Procs |-> IdleProc]
    /\ timer = NewTimer
    /\ exists = FALSE
    /\ info_log = <<>>
    /\ now = 0
    /\ last = NoCommand
    /\ ever_work = FALSE
    /\ plain = TRUE
    /\ cycle_wall = 0
    /\ paused_wall = 0
    /\ edits = 0

\* the timeline stays within the bound
InBounds(r) == Len(r.timer.timeline) <= MaxLen

\* cmd has run and left r; wiped: it created or removed the state file;
\* keeps_plain: it is a start without time, a pause or a stop; edit: it is a
\* mod command.  The step is taken while the timeline is no longer than
\* max_len and the state file has been edited no more than max_edits times.
Written(cmd, r, wiped, keeps_plain, edit, max_len, max_edits) ==
    /\ Len(r.timer.timeline) <= max_len
    /\ edits' = IF wiped THEN 0 ELSE IF edit /\ r.writes # <<>> THEN edits + 1 ELSE edits
    /\ edits' <= max_edits
    /\ timer' = r.timer
    /\ exists' = r.exists
    /\ info_log' = r.info_log
    /\ now' = now
    /\ last' = Command(cmd, r.msg)
    /\ ever_work' = ((~wiped /\ ever_work) \/ has_work_cycles(r.timer.timeline))
    /\ plain' = keeps_plain
    /\ cycle_wall' = IF keeps_plain /\ ~wiped THEN cycle_wall ELSE 0
    /\ paused_wall' = IF keeps_plain /\ ~wiped THEN paused_wall ELSE 0

\* a command that runs from its load to its last save with no other in between
ApplyWithin(cmd, r, wiped, keeps_plain, edit, max_len, max_edits) ==
    /\ Written(cmd, r, wiped, keeps_plain, edit, max_len, max_edits)
    /\ procs' = procs

Apply(cmd, r, wiped, keeps_plain, edit) ==
    InBounds(r) /\ ApplyWithin(cmd, r, wiped, keeps_plain, edit, MaxLen, MaxEdits)

\* ---------------------------------------------------------------- actions
Tick ==
    /\ now < MaxTime
    /\ now' = now + 1
    /\ cycle_wall' = IF plain /\ exists /\ timer.status # Stopped THEN cycle_wall + 1 ELSE cycle_wall
    /\ paused_wall' = IF plain /\ exists /\ timer.status = Paused THEN paused_wall + 1 ELSE paused_wall
    /\ last' = NoCommand
    /\ UNCHANGED <<timer, exists, info_log, ever_work, plain, edits, procs>>

\* wt start [start_time], run when the clock shows now minutes and sec seconds
StartStep(start_time, sec) ==
    LET r == start(timer, exists, info_log, start_time, DT(now, sec))
    IN  Apply("start", r, r.exists # exists, plain /\ start_time = None, FALSE)

\* the other handlers read the clock through delta_minutes and strftime only,
\* which drop the seconds
StopStep ==
    Apply("stop", stop(timer, exists, info_log, DT(now, 0)), FALSE, plain, FALSE)

PauseStep ==
    Apply("pause", pause(timer, exists, info_log, DT(now, 0)), FALSE, plain, FALSE)

NextStep ==
    Apply("next", next_timer(timer, exists, info_log, DT(now, 0)), FALSE, FALSE, FALSE)

ResetStep(answer) ==
    LET r == reset(timer, exists, info_log, answer)
    IN  Apply("reset", r, r.msg # "quit", r.msg # "quit", FALSE)

RestartStep(start_time, answer, sec) ==
    LET r == restart(timer, exists, info_log, start_time, answer, DT(now, sec))
        done == r.msg \notin {"quit", "Incorrect time format."}
    IN  Apply("restart", r, done, done /\ start_time = None, FALSE)

RemoveStep(answer) ==
    LET r == remove(timer, exists, info_log, answer)
    IN  Apply("remove", r, r.exists # exists, r.exists # exists, FALSE)

ModeStep(mode) ==
    Apply("mode", mode_select(timer, exists, info_log, mode), FALSE, FALSE, FALSE)

\* day_start is not moved outside the clock's range
ModStartStep(operation, time_str) ==
    LET r == mod_start(timer, exists, info_log, operation, time_str, DT(now, 0))
    IN  /\ r.timer.day_start # <<>> => r.timer.day_start[1] \in 0..MaxTime
        /\ Apply("mod start", r, FALSE, FALSE, TRUE)

\* no entry is made longer than MaxTime by hand
ModDurationStep(cycle_num_str, operation, time_str) ==
    LET r == mod_duration(timer, exists, info_log, cycle_num_str, operation, time_str, DT(now, 0))
    IN  /\ r.writes # <<>> => r.timer.timeline[int_of(cycle_num_str)].minutes <= MaxTime
        /\ Apply("mod", r, FALSE, FALSE, TRUE)

ModDropStep(cycle_num_str) ==
    Apply("mod drop", mod_drop(timer, exists, info_log, cycle_num_str, DT(now, 0)),
          FALSE, FALSE, TRUE)

\* wt add <time> and wt sub <time>
AdjustStep(word, time_str) ==
    Apply(word, main_invalid(timer, exists, info_log), FALSE, plain, FALSE)

CmdStart == \E start_time \in StartTimes, sec \in SecondsOfMinute : StartStep(start_time, sec)
CmdStop == StopStep
CmdPause == PauseStep
CmdNext == NextStep
CmdReset == \E answer \in Answers : ResetStep(answer)
CmdRestart ==
    \E start_time \in StartTimes, answer \in Answers, sec \in SecondsOfMinute :
        RestartStep(start_time, answer, sec)
CmdRemove == \E answer \in Answers : RemoveStep(answer)
CmdMode == \E mode \in Modes : ModeStep(mode)
CmdModStart == \E a \in ModStartInputs : ModStartStep(a[1], a[2])
CmdModDuration == \E a \in ModDurationInputs : ModDurationStep(a[1], a[2], a[3])
CmdModDrop == \E cycle_num_str \in ModDropInputs : ModDropStep(cycle_num_str)
CmdAdjust == \E a \in AdjustInputs : AdjustStep(a[1], a[2])

\* the cycle commands and the timeline editor
Next ==
    \/ Tick
    \/ CmdStart
    \/ CmdStop
    \/ CmdPause
    \/ CmdNext
    \/ CmdReset
    \/ CmdModStart
    \/ CmdModDuration
    \/ CmdModDrop

Spec == Init /\ [][Next]_vars

\* the cycle commands alone, and the words add and sub
NextCycle ==
    \/ Tick
    \/ CmdStart
    \/ CmdStop
    \/ CmdPause
    \/ CmdNext
    \/ CmdReset
    \/ CmdAdjust

SpecCycle == Init /\ [][NextCycle]_vars

\* the cycle commands and the commands that create, destroy and configure the
\* state file; the mode only selects what is printed
NextLifecycle ==
    \/ Tick
    \/ CmdStart
    \/ CmdStop
    \/ CmdPause
    \/ CmdReset
    \/ CmdRestart
    \/ CmdRemove
    \/ CmdMode

SpecLifecycle == Init /\ [][NextLifecycle]_vars

\* the cycle commands without a time argument and mod <n> drop, on timelines
\* long enough for a drop to leave entries on both sides of the one it merges
LongStart ==
    LET r == start(timer, exists, info_log, None, DT(now, 0))
    IN  ApplyWithin("start", r, r.exists # exists, plain, FALSE, MaxDropLen, MaxDrops)

LongStop ==
    ApplyWithin("stop", stop(timer, exists, info_log, DT(now, 0)), FALSE, plain, FALSE,
                MaxDropLen, MaxDrops)

LongPause ==
    ApplyWithin("pause", pause(timer, exists, info_log, DT(now, 0)), FALSE, plain, FALSE,
                MaxDropLen, MaxDrops)

LongNext ==
    ApplyWithin("next", next_timer(timer, exists, info_log, DT(now, 0)), FALSE, FALSE, FALSE,
                MaxDropLen, MaxDrops)

LongDrop(cycle_num_str) ==
    ApplyWithin("mod drop", mod_drop(timer, exists, info_log, cycle_num_str, DT(now, 0)),
                FALSE, FALSE, TRUE, MaxDropLen, MaxDrops)

CmdLongDrop == \E n \in 0..MaxDropLen : LongDrop(<<n>>)

NextDrop ==
    \/ Tick
    \/ LongStart
    \/ LongStop
    \/ LongPause
    \/ LongNext
    \/ CmdLongDrop

SpecDrop == Init /\ [][NextDrop]_vars

\* two invocations of pause, stop or mode verbose, one command each, that run
\* side by side; each reads the state file in load() and writes it in save(),
\* and the other may do either in between.  The info-log, which stop only ever
\* appends to, is followed up to MaxRaceLog lines.
MaxRaceLog == 2

RaceCommands == {"pause", "stop", "mode"}

\* what the handler of cmd computes from the state t it loaded
Run(cmd, t, log, now_dt) ==
    CASE cmd = "pause" -> pause(t, TRUE, log, now_dt)
      [] cmd = "stop" -> stop(t, TRUE, log, now_dt)
      [] OTHER -> mode_select(t, TRUE, log, Verbose)

\* load(): the invocation reads the whole state file, or quits without one
Load(p, cmd) ==
    /\ procs[p].pc = "idle"
    /\ procs' = [procs EXCEPT ![p] =
                    IF exists
                    THEN [pc |-> "loaded", cmd |-> cmd, timer |-> timer, msg |-> "", behind |-> {}]
                    ELSE [pc |-> "done", cmd |-> cmd, timer |-> timer,
                          msg |-> "No timer exists.", behind |-> {}]]
    /\ last' = NoCommand
    /\ UNCHANGED <<timer, exists, info_log, now, ever_work, plain, cycle_wall, paused_wall, edits>>

\* variant: the invocation reads the state file again right before it saves
SaveOfFreshLoad(p) ==
    /\ procs[p].pc = "loaded"
    /\ LET r == Run(procs[p].cmd, timer, info_log, DT(now, 0))
           on_file == IF r.writes = <<>> THEN [r EXCEPT !.timer = timer, !.info_log = info_log]
                      ELSE r
       IN  /\ Len(on_file.info_log) <= MaxRaceLog
           /\ Written(procs[p].cmd, on_file, FALSE, FALSE, FALSE, MaxLen, MaxEdits)
           /\ procs' = [q \in Procs |->
                           IF q = p THEN [procs[p] EXCEPT !.pc = "done", !.msg = r.msg]
                           ELSE IF procs[q].pc = "loaded" /\ r.writes # <<>>
                                THEN [procs[q] EXCEPT !.behind = @ \cup {p}]
                                ELSE procs[q]]

\* the rest of the handler: it computes from the state it loaded and, when it
\* does not turn the command away, overwrites the whole state file
Save(p) ==
    /\ procs[p].pc = "loaded"
    /\ LET r == Run(procs[p].cmd, procs[p].timer, info_log, DT(now, 0))
           on_file == IF r.writes = <<>> THEN [r EXCEPT !.timer = timer, !.info_log = info_log]
                      ELSE r
       IN  /\ Len(on_file.info_log) <= MaxRaceLog
           /\ Written(procs[p].cmd, on_file, FALSE, FALSE, FALSE, MaxLen, MaxEdits)
           /\ procs' = [q \in Procs |->
                           IF q = p THEN [procs[p] EXCEPT !.pc = "done", !.msg = r.msg]
                           ELSE IF procs[q].pc = "loaded" /\ r.writes # <<>>
                                THEN [procs[q] EXCEPT !.behind = @ \cup {p}]
                                ELSE procs[q]]

\* wt start with no time argument, run on its own
RaceStart ==
    LET r == start(timer, exists, info_log, None, DT(now, 0))
    IN  /\ Len(r.info_log) <= MaxRaceLog
        /\ Apply("start", r, r.exists # exists, plain, FALSE)

CmdLoad == \E p \in Procs, cmd \in RaceCommands : Load(p, cmd)
CmdSave == \E p \in Procs : Save(p)

NextRace ==
    \/ Tick
    \/ RaceStart
    \/ CmdLoad
    \/ CmdSave

SpecRace == Init /\ [][NextRace]_vars

\* ================================================================= claims
Timeline == timer.timeline
LastEntry == Timeline[Len(Timeline)]
NowDT == DT(now, 0)
\* the time strings validate_timestring_or_quit lets through
BackdateTimes == {st \in StartTimes : st # None /\ validate_timestring_or_quit(st)}

\* C1: whenever the status is Stopped, segment_marker (start_datetime_str) and
\* cycle_start are empty and paused_minutes is 0.
C1_StoppedIsClear ==
    timer.status = Stopped =>
        /\ timer.start_datetime_str = <<>>
        /\ timer.cycle_start_datetime_str = <<>>
        /\ timer.paused_minutes = 0

\* stop has just closed a cycle that had been paused
C1_Witness ==
    /\ last = Command("stop", "")
    /\ timer.status = Stopped
    /\ LastEntry.paused_minutes > 0

\* C2: every timeline entry, Work or Break, has minutes >= 0.
C2_MinutesNonNegative ==
    \A i \in 1..Len(Timeline) : Timeline[i].minutes >= 0

\* a backdated start on a later cycle has just reduced its break to 0, after
\* the timeline was edited
C2_Witness ==
    /\ last = Command("start", "")
    /\ edits > 0
    /\ Len(Timeline) > 1
    /\ Timeline[Len(Timeline) - 1].type = "work"
    /\ LastEntry.type = "break"
    /\ LastEntry.minutes = 0
    /\ timer.cycle_start_datetime_str # <<>>
    /\ timer.cycle_start_datetime_str[1] < now

\* every Work entry of tl has total_minutes = minutes + paused_minutes
TotalsHold(tl) ==
    \A i \in 1..Len(tl) :
        tl[i].type = "work" => tl[i].total_minutes = tl[i].minutes + tl[i].paused_minutes

\* C3: every Work entry has total_minutes = minutes + paused_minutes, and a
\* drop (one that merges two Work entries included) keeps that equality.
C3_DropKeepsTotal ==
    [][(last'.cmd = "mod drop" /\ TotalsHold(Timeline)) => TotalsHold(timer'.timeline)]_vars

\* C4: day_start is empty exactly when no Work entry has been recorded since
\* the last reset and no cycle is open.
C4_DayStartEmptyIff ==
    (timer.day_start = <<>>) <=> (~ever_work /\ timer.status = Stopped)

\* the messages of the validation errors
ValidationErrors ==
    {"Incorrect time format.", "Invalid time format.", "Invalid cycle number.",
     "Cycle does not exist.", "Invalid operation.", "Error: Duration would be negative.",
     "Cannot reduce break below 0.", "Cannot backdate start that far."}

\* C5: a command that reports a validation error leaves the state file as it
\* was before the command.
C5_RejectedLeavesState ==
    [][last'.msg \in ValidationErrors => (timer' = timer /\ exists' = exists)]_vars

\* C6: start when Running, pause when Paused, pause when Stopped and stop when
\* Stopped leave the whole state file unchanged.
C6_IllegalTransitionsKeepState ==
    [][(/\ exists
        /\ \/ last'.cmd = "start" /\ timer.status = Running
           \/ last'.cmd = "pause" /\ timer.status \in {Paused, Stopped}
           \/ last'.cmd = "stop" /\ timer.status = Stopped)
       => (timer' = timer /\ exists' = exists)]_vars

\* pause has just been issued on a paused timer inside a later cycle
C6_Witness ==
    /\ last = Command("pause", "Timer already paused.")
    /\ timer.status = Paused
    /\ Len(Timeline) > 0

\* C7: while only start (without backdate), pause and stop have been issued,
\* the minutes of the Work entries plus the work minutes of the open cycle are
\* the minutes of the clock spent inside cycles minus those spent Paused.
C7_Conservation ==
    plain => completed_minutes(timer) + calculate_current_minutes(timer, NowDT)
                 = cycle_wall - paused_wall

\* a second cycle is open and has accrued work, after a first one with a pause
C7_Witness ==
    /\ plain
    /\ paused_wall > 0
    /\ completed_minutes(timer) > 0
    /\ timer.status = Running
    /\ calculate_current_minutes(timer, NowDT) > 0

\* C8: start(D) from Stopped with a Work entry in the timeline and stop_marker
\* set: rejected with no mutation when the gap since the stop is smaller than D;
\* otherwise a Break of gap - D is appended, cycle_start = segment_marker =
\* now - D and day_start is unchanged.
C8_BackdateLaterCycle ==
    [][\A st \in BackdateTimes, sec \in SecondsOfMinute :
           (/\ exists
            /\ timer.status = Stopped
            /\ has_work_cycles(Timeline)
            /\ timer.stop_datetime_str # <<>>
            /\ StartStep(st, sec))
           => LET D == string_time_to_minutes(st)
                  gap == now - timer.stop_datetime_str[1]
              IN  IF gap < D THEN timer' = timer
                  ELSE /\ timer'.timeline = Append(Timeline, BreakEntry(gap - D))
                       /\ timer'.status = Running
                       /\ timer'.cycle_start_datetime_str = <<now - D>>
                       /\ timer'.start_datetime_str = <<now - D>>
                       /\ timer'.day_start = timer.day_start]_vars

\* C9: start(D) with D >= 1 from Stopped, when the timeline holds no Work entry,
\* succeeds, moves day_start, cycle_start and segment_marker D minutes earlier
\* than a start without backdate would have set them, and leaves the Break
\* entries as that start would.
C9_BackdateFirstCycle ==
    [][\A st \in BackdateTimes, sec \in SecondsOfMinute :
           (/\ string_time_to_minutes(st) >= 1
            /\ timer.status = Stopped
            /\ ~has_work_cycles(Timeline)
            /\ StartStep(st, sec))
           => LET D == string_time_to_minutes(st)
                  t0 == start(timer, exists, info_log, None, DT(now, sec)).timer
              IN  /\ last'.msg = ""
                  /\ timer'.status = Running
                  /\ timer'.day_start = <<t0.day_start[1] - D>>
                  /\ timer'.cycle_start_datetime_str = <<t0.cycle_start_datetime_str[1] - D>>
                  /\ timer'.start_datetime_str = <<t0.start_datetime_str[1] - D>>
                  /\ timer'.timeline = t0.timeline]_vars

\* C10: start(D) issued while Paused leaves cycle_start and every timeline entry
\* unchanged, exactly as a resume without D does.
C10_ResumeIgnoresBackdate ==
    [][\A st \in BackdateTimes, sec \in SecondsOfMinute :
           (exists /\ timer.status = Paused /\ StartStep(st, sec))
           => /\ timer'.cycle_start_datetime_str = timer.cycle_start_datetime_str
              /\ timer'.timeline = Timeline
              /\ timer' = start(timer, exists, info_log, None, DT(now, sec)).timer]_vars

\* C11: once day_start is non-empty, pause, stop, next and a resume (start
\* issued while Paused, with or without a time argument) leave it as it is.
C11_DayStartFrame ==
    [][(/\ exists
        /\ timer.day_start # <<>>
        /\ \/ last'.cmd \in {"pause", "stop", "next"}
           \/ last'.cmd = "start" /\ timer.status = Paused)
       => timer'.day_start = timer.day_start]_vars

\* the message of the three mod commands when the timer is not Stopped
NotWhileOpen == "Cannot modify while timer is running or paused."

\* C12: next issued while Running or Paused appends the Work entry stop would
\* append followed by a Break of 0 minutes, and ends Running with cycle_start =
\* segment_marker = now, paused_minutes = 0 and stop_marker empty.
C12_NextIsStopBreakStart ==
    [][(exists /\ timer.status \in {Running, Paused} /\ last'.cmd = "next")
       => LET stopped == stop(timer, exists, info_log, NowDT).timer
          IN  /\ Len(stopped.timeline) = Len(Timeline) + 1
              /\ stopped.timeline[Len(stopped.timeline)].type = "work"
              /\ timer'.timeline = Append(stopped.timeline, BreakEntry(0))
              /\ SubSeq(timer'.timeline, 1, Len(Timeline)) = Timeline
              /\ timer'.status = Running
              /\ timer'.cycle_start_datetime_str = <<now>>
              /\ timer'.start_datetime_str = <<now>>
              /\ timer'.paused_minutes = 0
              /\ timer'.stop_datetime_str = <<>>]_vars

\* next has just closed a cycle that had been paused and had accrued work
C12_Witness ==
    /\ last = Command("next", "")
    /\ Len(Timeline) >= 2
    /\ Timeline[Len(Timeline) - 1].type = "work"
    /\ Timeline[Len(Timeline) - 1].paused_minutes > 0
    /\ Timeline[Len(Timeline) - 1].minutes > 0
    /\ LastEntry = BreakEntry(0)
    /\ timer.status = Running

SubInputs == {a \in ModDurationInputs : a[2] = "sub" /\ isdigit(a[1]) /\ isdigit(a[3])}

\* C14: on a Stopped timer mod <n> sub D is rejected, with every timeline
\* entry unchanged, when n is outside 1..len(timeline) or entry n has
\* minutes < D; otherwise entry n gets minutes - D and no other entry changes.
C14_ResizeFloor ==
    [][(last'.cmd = "mod" /\ exists /\ timer.status = Stopped)
       => \A a \in SubInputs :
              ModDurationStep(a[1], a[2], a[3])
              => LET n == int_of(a[1])
                     D == string_time_to_minutes(a[3])
                 IN  IF n \notin 1..Len(Timeline)
                     THEN last'.msg = "Cycle does not exist." /\ timer' = timer
                     ELSE IF Timeline[n].minutes < D
                     THEN last'.msg = "Error: Duration would be negative." /\ timer' = timer
                     ELSE /\ last'.msg = ""
                          /\ Len(timer'.timeline) = Len(Timeline)
                          /\ timer'.timeline[n].minutes = Timeline[n].minutes - D
                          /\ \A i \in 1..Len(Timeline) :
                                 i # n => timer'.timeline[i] = Timeline[i]]_vars

\* mod <n> sub 2 has just been turned away: no entry is as long as 2 minutes,
\* and one of them is a Work entry of 1 minute with a pause
C14_Witness ==
    /\ last = Command("mod", "Error: Duration would be negative.")
    /\ Len(Timeline) >= 2
    /\ \A i \in 1..Len(Timeline) : Timeline[i].minutes < 2
    /\ \E i \in 1..Len(Timeline) :
           Timeline[i].type = "work" /\ Timeline[i].minutes = 1 /\ Timeline[i].paused_minutes > 0

\* entry n of tl has an entry of kind `kind` right before and right after it
Between(tl, n, kind) ==
    /\ n > 1 /\ tl[n - 1].type = kind
    /\ n < Len(tl) /\ tl[n + 1].type = kind

\* after is before without its entries n .. n + count - 1, the others as
\* they were and in their order, except that entry `but` may have changed
Removed(before, after, n, count, but) ==
    /\ Len(after) = Len(before) - count
    /\ \A i \in 1..Len(after) :
           i # but => after[i] = before[IF i < n THEN i ELSE i + count]

\* C15: dropping a Break that has a Work entry right before and right after it
\* shortens the timeline by 2, leaves in the place of the first Work entry a
\* Work entry with the sum of the two Work entries' minutes, leaves the other
\* entries and their order unchanged and keeps the sum of all Work minutes.
C15_DropBreakMergesWork ==
    [][(last'.cmd = "mod drop" /\ exists /\ timer.status = Stopped)
       => \A n \in 1..Len(Timeline) :
              (/\ Timeline[n].type = "break"
               /\ Between(Timeline, n, "work")
               /\ LongDrop(<<n>>))
              => /\ Removed(Timeline, timer'.timeline, n, 2, n - 1)
                 /\ timer'.timeline[n - 1].type = "work"
                 /\ timer'.timeline[n - 1].minutes
                        = Timeline[n - 1].minutes + Timeline[n + 1].minutes
                 /\ SumWork(timer'.timeline) = SumWork(Timeline)]_vars

\* a drop has just merged two Work entries of a minute or more each, with two
\* or more entries left beside the merged one
C15_Witness ==
    /\ last = Command("mod drop", "merged adjacent work cycles")
    /\ Len(Timeline) >= 3
    /\ \E i \in 1..Len(Timeline) :
           /\ Timeline[i].type = "work"
           /\ Timeline[i].minutes >= 2
           /\ Timeline[i].minutes > Timeline[i].total_minutes

\* C16: dropping a Work entry that has a Break right before and right after it
\* shortens the timeline by 2 and leaves one Break with the sum of the two
\* Breaks' minutes; a drop of an entry in any other place, except a Break
\* between two Work entries, shortens the timeline by 1 and leaves every
\* remaining entry unchanged.
C16_DropWorkAndPlainDrop ==
    [][(last'.cmd = "mod drop" /\ exists /\ timer.status = Stopped)
       => \A n \in 1..Len(Timeline) :
              LongDrop(<<n>>)
              => IF Timeline[n].type = "work" /\ Between(Timeline, n, "break")
                 THEN /\ Removed(Timeline, timer'.timeline, n, 2, n - 1)
                      /\ timer'.timeline[n - 1]
                             = BreakEntry(Timeline[n - 1].minutes + Timeline[n + 1].minutes)
                 ELSE IF Timeline[n].type = "break" /\ Between(Timeline, n, "work")
                 THEN TRUE
                 ELSE Removed(Timeline, timer'.timeline, n, 1, 0)]_vars

\* a drop has just merged two Breaks, one of them of a minute or more, with a
\* Work entry left beside the merged Break
C16_Witness ==
    /\ last = Command("mod drop", "merged adjacent breaks")
    /\ Len(Timeline) >= 2
    /\ \E i \in 1..Len(Timeline) : Timeline[i].type = "break" /\ Timeline[i].minutes >= 1
    /\ has_work_cycles(Timeline)

\* the mod start add/sub <time> commands with a well-formed time
ShiftInputs == {a \in ModStartInputs : a[1] \in {"add", "sub"} /\ isdigit(a[2])}

\* ts moved D minutes later by add and D minutes earlier by sub
Shifted(ts, operation, D) == <<IF operation = "add" THEN ts[1] + D ELSE ts[1] - D>>

\* C17: mod start add D moves day_start D minutes later and mod start sub D
\* moves it D minutes earlier, with the timeline unchanged; on a timer that is
\* Running on its first cycle (no Work entry yet) the open cycle's start marker
\* moves by the same amount.
C17_ShiftDayStart ==
    [][(last'.cmd = "mod start" /\ exists /\ timer.day_start # <<>>)
       => \A a \in ShiftInputs :
              (/\ ModStartStep(a[1], a[2])
               /\ \/ timer.status = Stopped
                  \/ timer.status = Running /\ ~has_work_cycles(Timeline))
              => LET D == string_time_to_minutes(a[2])
                 IN  /\ timer'.day_start = Shifted(timer.day_start, a[1], D)
                     /\ timer'.timeline = Timeline
                     /\ timer.status = Running
                            => timer'.start_datetime_str
                                   = Shifted(timer.start_datetime_str, a[1], D)]_vars

\* the same on a Stopped timer alone
ShiftWhileStopped ==
    [][(last'.cmd = "mod start" /\ exists /\ timer.day_start # <<>> /\ timer.status = Stopped)
       => \A a \in ShiftInputs :
              ModStartStep(a[1], a[2])
              => /\ timer'.day_start = Shifted(timer.day_start, a[1], string_time_to_minutes(a[2]))
                 /\ timer'.timeline = Timeline]_vars

\* C18: when the log is what regenerate_info_log writes from day_start and the
\* timeline, regenerating it again from the same day_start and timeline, at
\* this minute or any later one, leaves it identical.
C18_ProjectionIdempotent ==
    info_log = regenerate_info_log(timer, NowDT)
    => \A n \in now..MaxTime : regenerate_info_log(timer, DT(n, 0)) = info_log

\* C19: wt sub D on an open cycle (Running or Paused) is rejected with the state
\* unchanged when D > current_work_minutes(); otherwise it moves the cycle's
\* start marker D minutes later, so that current_work_minutes() decreases by D.
C19_SubOnOpenCycle ==
    [][(last'.cmd = "sub" /\ exists /\ timer.status \in {Running, Paused})
       => \A a \in AdjustInputs :
              (a[1] = "sub" /\ AdjustStep(a[1], a[2]))
              => LET D == string_time_to_minutes(a[2])
                     current == calculate_current_minutes(timer, NowDT)
                 IN  IF D > current THEN timer' = timer
                     ELSE /\ calculate_current_minutes(timer', NowDT) = current - D
                          /\ timer'.cycle_start_datetime_str
                                 = <<timer.cycle_start_datetime_str[1] + D>>]_vars

\* the state file of a timer that has just been created with the mode `mode`
Fresh(mode) == Timer(Stopped, <<>>, <<>>, 0, mode, <<>>, <<>>, <<>>)

\* C20: a reset leaves status Stopped, an empty timeline, empty day_start,
\* cycle_start, segment_marker and stop_marker, paused_minutes 0 and, when a
\* timer existed, its mode; a start issued when no timer exists ends as the
\* same start issued on that fresh state.
C20_ResetIsFresh ==
    [][/\ (last'.cmd = "reset" /\ last'.msg = "Timer reset.")
          => /\ exists'
             /\ timer'.status = Stopped
             /\ timer'.timeline = <<>>
             /\ timer'.day_start = <<>>
             /\ timer'.cycle_start_datetime_str = <<>>
             /\ timer'.start_datetime_str = <<>>
             /\ timer'.stop_datetime_str = <<>>
             /\ timer'.paused_minutes = 0
             /\ exists => timer'.mode = timer.mode
       /\ (last'.cmd = "start" /\ ~exists)
          => \A st \in BackdateTimes \cup {None}, sec \in SecondsOfMinute :
                 StartStep(st, sec)
                 => /\ exists'
                    /\ timer' = start(Fresh(Silent), TRUE, <<>>, st, DT(now, sec)).timer
                    /\ timer'.status = Running
                    /\ timer'.timeline = <<>>
                    /\ st = None => /\ timer'.day_start = <<now>>
                                     /\ timer'.cycle_start_datetime_str = <<now>>
                                     /\ timer'.start_datetime_str = <<now>>]_vars

\* a reset has just wiped a timer whose mode had been changed
C20_Witness ==
    /\ last = Command("reset", "Timer reset.")
    /\ exists
    /\ timer = Fresh(Verbose)
    /\ now > 0

\* a digit string of 1 to 4 characters whose minute component is at most 59
WellFormedTime(s) ==
    /\ isdigit(s)
    /\ Len(s) <= 4
    /\ Len(s) >= 2 => 10 * s[Len(s) - 1] + s[Len(s)] <= 59

\* hours * 60 + minutes of a string read as MM, HMM or HHMM
ClaimedMinutes(s) ==
    LET mm == 10 * s[Len(s) - 1] + s[Len(s)]
        hh == CASE Len(s) = 2 -> 0
                [] Len(s) = 3 -> s[1]
                [] Len(s) = 4 -> 10 * s[1] + s[2]
    IN  hh * 60 + mm

\* time strings of two to four digits
TimeStrings == {<<0, 5>>, <<5, 9>>, <<1, 0, 0>>, <<9, 5, 9>>, <<0, 1, 3, 0>>, <<2, 3, 5, 9>>}

\* C21: a time value of MM, HMM or HHMM digits is converted to hours * 60 +
\* minutes, and start, as mod <n> add/sub, rejects a time value that is longer
\* than 4 digits or whose minute component exceeds 59.
C21_TimeValues ==
    [][/\ \A s \in TimeStrings : string_time_to_minutes(s) = ClaimedMinutes(s)
       /\ last'.cmd = "start"
          => \A st \in StartTimes \ {None}, sec \in SecondsOfMinute :
                 (StartStep(st, sec) /\ ~WellFormedTime(st))
                 => (last'.msg = "Incorrect time format." /\ timer' = timer /\ exists' = exists)
       /\ (last'.cmd = "mod" /\ exists /\ timer.status = Stopped)
          => \A a \in ModDurationInputs :
                 (/\ isdigit(a[1])
                  /\ cycle_exists(timer, int_of(a[1]))
                  /\ a[2] \in {"add", "sub"}
                  /\ ModDurationStep(a[1], a[2], a[3])
                  /\ ~WellFormedTime(a[3]))
                 => (last'.msg = "Invalid time format." /\ timer' = timer)]_vars


\* C22: stop from Running or Paused appends exactly one Work entry whose
\* total_minutes is now - cycle_start, whose paused_minutes is the accumulated
\* paused_minutes plus, only when Paused, now - segment marker, and whose
\* minutes is max(0, total - paused); it sets the stop marker to now and
\* leaves the earlier entries and day_start as they were
C22_StopAppendsWork ==
    [][(last'.cmd = "stop" /\ exists /\ timer.status \in {Running, Paused})
       => LET total == now - timer.cycle_start_datetime_str[1]
              paused == timer.paused_minutes
                        + (IF timer.status = Paused THEN now - timer.start_datetime_str[1] ELSE 0)
              minutes == IF total - paused > 0 THEN total - paused ELSE 0
          IN  /\ timer'.timeline = Append(timer.timeline,
                      [type |-> "work", minutes |-> minutes,
                       paused_minutes |-> paused, total_minutes |-> total])
              /\ timer'.stop_datetime_str = <<now>>
              /\ timer'.day_start = timer.day_start]_vars

\* a later cycle that held both work and pause was stopped
C22_Witness ==
    /\ last = Command("stop", "")
    /\ Len(Timeline) >= 2
    /\ LastEntry.minutes > 0
    /\ LastEntry.paused_minutes > 0
    /\ LastEntry.total_minutes = LastEntry.minutes + LastEntry.paused_minutes

\* C23: start from Stopped without a time appends exactly one Break of
\* now - stop marker when the stop marker is set and leaves the timeline alone
\* otherwise; afterwards the timer is Running, segment marker and cycle start
\* are now, the stop marker is empty, paused_minutes is 0 and day_start is now
\* only when it was empty
C23_StartFromStopped ==
    [][(last'.cmd = "start" /\ timer.status = Stopped)
       => \A sec \in SecondsOfMinute :
              StartStep(None, sec)
              => /\ timer'.timeline =
                        IF timer.stop_datetime_str # <<>>
                        THEN Append(timer.timeline,
                                 [type |-> "break", minutes |-> now - timer.stop_datetime_str[1]])
                        ELSE timer.timeline
                 /\ timer'.status = Running
                 /\ timer'.start_datetime_str = <<now>>
                 /\ timer'.cycle_start_datetime_str = <<now>>
                 /\ timer'.stop_datetime_str = <<>>
                 /\ timer'.paused_minutes = 0
                 /\ timer'.day_start = IF timer.day_start = <<>> THEN <<now>> ELSE timer.day_start]_vars

\* a later cycle has just started after a break, the day began earlier
C23_Witness ==
    /\ last = Command("start", "")
    /\ timer.status = Running
    /\ timer.cycle_start_datetime_str = <<now>>
    /\ Len(Timeline) >= 2
    /\ LastEntry.type = "break"
    /\ LastEntry.minutes > 0
    /\ timer.day_start # <<>>
    /\ timer.day_start[1] < now

\* paused_minutes of the entries recorded so far
RECURSIVE SumPaused(_)
SumPaused(tl) ==
    IF tl = <<>> THEN 0
    ELSE (IF Head(tl).type = "work" THEN Head(tl).paused_minutes ELSE 0) + SumPaused(Tail(tl))

\* while only plain cycle commands were used, the paused_minutes of the open
\* cycle is the clock time of its completed pauses
CompletedPauses ==
    (plain /\ exists /\ timer.status \in {Running, Paused})
    => timer.paused_minutes + SumPaused(Timeline)
         = paused_wall - (IF timer.status = Paused THEN now - timer.start_datetime_str[1] ELSE 0)

\* C24: start without a time from Paused adds exactly now - segment marker to
\* paused_minutes, sets the segment marker to now and the status to Running and
\* leaves cycle start, day_start, stop marker and timeline alone; over any
\* number of pauses of one cycle paused_minutes is the sum of the completed ones
C24_Resume ==
    [][/\ (last'.cmd = "start" /\ exists /\ timer.status = Paused)
          => \A sec \in SecondsOfMinute :
                 StartStep(None, sec)
                 => /\ timer'.paused_minutes
                          = timer.paused_minutes + (now - timer.start_datetime_str[1])
                    /\ timer'.start_datetime_str = <<now>>
                    /\ timer'.status = Running
                    /\ timer'.cycle_start_datetime_str = timer.cycle_start_datetime_str
                    /\ timer'.day_start = timer.day_start
                    /\ timer'.stop_datetime_str = timer.stop_datetime_str
                    /\ timer'.timeline = timer.timeline
       /\ CompletedPauses']_vars

\* the same resume, for the cycles whose day_start is set when they are paused
ResumeWithDayStart ==
    [][/\ (last'.cmd = "start" /\ exists /\ timer.status = Paused /\ timer.day_start # <<>>)
          => \A sec \in SecondsOfMinute :
                 StartStep(None, sec)
                 => /\ timer'.paused_minutes
                          = timer.paused_minutes + (now - timer.start_datetime_str[1])
                    /\ timer'.start_datetime_str = <<now>>
                    /\ timer'.status = Running
                    /\ timer'.cycle_start_datetime_str = timer.cycle_start_datetime_str
                    /\ timer'.day_start = timer.day_start
                    /\ timer'.stop_datetime_str = timer.stop_datetime_str
                    /\ timer'.timeline = timer.timeline
       /\ CompletedPauses']_vars

\* C25: pause from Running sets the segment marker to now and the status to
\* Paused and leaves cycle start, day_start, paused_minutes, stop marker and
\* timeline alone
C25_Pause ==
    [][(last'.cmd = "pause" /\ exists /\ timer.status = Running)
       => /\ timer'.start_datetime_str = <<now>>
          /\ timer'.status = Paused
          /\ timer'.cycle_start_datetime_str = timer.cycle_start_datetime_str
          /\ timer'.day_start = timer.day_start
          /\ timer'.paused_minutes = timer.paused_minutes
          /\ timer'.stop_datetime_str = timer.stop_datetime_str
          /\ timer'.timeline = timer.timeline]_vars

\* a cycle that already counted a pause is paused again, later
C25_Witness ==
    /\ last = Command("pause", "")
    /\ timer.status = Paused
    /\ timer.paused_minutes > 0
    /\ timer.start_datetime_str = <<now>>
    /\ timer.cycle_start_datetime_str[1] < now


\* current_work_minutes() of the state on file, read when the clock shows now
current_work_minutes == calculate_current_minutes(timer, NowDT)

\* C26: current_work_minutes() is 0 when Stopped; inside an open cycle a
\* minute of the clock spent Running adds exactly one minute to it and a
\* minute spent Paused adds nothing, and neither a pause nor the resume that
\* follows it changes the work accrued
C26_Accrual ==
    [][/\ (exists' /\ timer'.status = Stopped) => current_work_minutes' = 0
       /\ (now' = now + 1 /\ exists /\ timer.status = Running)
          => current_work_minutes' = current_work_minutes + 1
       /\ (now' = now + 1 /\ exists /\ timer.status = Paused)
          => current_work_minutes' = current_work_minutes
       /\ (last'.cmd = "pause" /\ exists /\ timer.status = Running)
          => current_work_minutes' = current_work_minutes
       /\ (last'.cmd = "start" /\ exists /\ timer.status = Paused)
          => \A sec \in SecondsOfMinute :
                 StartStep(None, sec) => current_work_minutes' = current_work_minutes]_vars

\* the same accrual, for the cycles whose counted pauses fit in their elapsed time
AccrualWhenPausesFit ==
    [][(exists /\ timer.status \in {Running, Paused}
        /\ timer.paused_minutes <= delta_minutes(strptime(timer.cycle_start_datetime_str), NowDT))
       => /\ (now' = now + 1 /\ timer.status = Running)
             => current_work_minutes' = current_work_minutes + 1
          /\ (now' = now + 1 /\ timer.status = Paused)
             => current_work_minutes' = current_work_minutes
          /\ (last'.cmd = "pause" /\ timer.status = Running)
             => current_work_minutes' = current_work_minutes
          /\ (last'.cmd = "start" /\ timer.status = Paused)
             => \A sec \in SecondsOfMinute :
                    StartStep(None, sec) => current_work_minutes' = current_work_minutes]_vars



\* the messages of the timeline editor commands that changed the timeline
EditorSuccess == {"", "merged adjacent work cycles", "merged adjacent breaks"}

ClaimedSpan(entry) == IF entry.type = "work" THEN entry.total_minutes ELSE entry.minutes

\* the spans of the first n entries, added up
RECURSIVE SpanSum(_, _)
SpanSum(tl, n) == IF n = 0 THEN 0 ELSE SpanSum(tl, n - 1) + ClaimedSpan(tl[n])

\* the minutes of the Work entries among the first n entries, added up
RECURSIVE WorkSum(_, _)
WorkSum(tl, n) ==
    IF n = 0 THEN 0
    ELSE WorkSum(tl, n - 1) + (IF tl[n].type = "work" THEN tl[n].minutes ELSE 0)

\* the lines regenerate_info_log writes, replayed from the minute anchor
ReplayedFrom(anchor) ==
    LET lines == regenerate_info_log(timer, NowDT)
    IN  /\ Len(lines) = Len(Timeline)
        /\ \A i \in 1..Len(Timeline) :
               /\ lines[i].text = (IF Timeline[i].type = "work" THEN "Work" ELSE "Break")
               /\ lines[i].start = (anchor + SpanSum(Timeline, i - 1)) % MinutesPerDay
               /\ lines[i].end = (anchor + SpanSum(Timeline, i - 1) + ClaimedSpan(Timeline[i])) % MinutesPerDay
               /\ i < Len(Timeline) => lines[i + 1].start = lines[i].end
               /\ Timeline[i].type = "work"
                  => lines[i].total = mintues_to_hour_minute_str(WorkSum(Timeline, i))

\* C28: the projection writes exactly one line per timeline entry, in order;
\* line i starts at day_start plus the total_minutes (Work) or minutes (Break)
\* of the entries before it and stops its own span later, so consecutive lines
\* are contiguous; the total on a Work line is the sum of the minutes of the
\* Work entries up to and including it
C28_Projection ==
    Len(Timeline) > 0 => (timer.day_start # <<>> /\ ReplayedFrom(timer.day_start[1]))

\* the same replay, for the timelines that have a day_start
ProjectionWithDayStart ==
    (Len(Timeline) > 0 /\ timer.day_start # <<>>) => ReplayedFrom(timer.day_start[1])

\* the replay of a timeline without day_start is anchored at the clock
ProjectionWithoutDayStart ==
    (Len(Timeline) > 0 /\ timer.day_start = <<>>) => ReplayedFrom(now)



\* what the claim allows a command to do to the state file: at most one
\* write, of the state the command ends with
OneWrite(r) ==
    /\ Len(r.writes) <= 1
    /\ \A i \in 1..Len(r.writes) : r.writes[i] = r.timer

\* C29: each command overwrites the state file at most once, after all its
\* computation, so that no intermediate state (Running with the start not yet
\* backdated during start D, Stopped without the Break of 0 minutes during
\* next) is ever on file
C29_SingleWrite ==
    [][/\ last'.cmd = "start"
          => \A st \in StartTimes, sec \in SecondsOfMinute :
                 StartStep(st, sec) => OneWrite(start(timer, exists, info_log, st, DT(now, sec)))
       /\ last'.cmd = "next" => OneWrite(next_timer(timer, exists, info_log, NowDT))
       /\ last'.cmd = "stop" => OneWrite(stop(timer, exists, info_log, NowDT))
       /\ last'.cmd = "pause" => OneWrite(pause(timer, exists, info_log, NowDT))]_vars

\* the cycle commands that go through a single save_timer
SingleWriteOfStopAndPause ==
    [][/\ last'.cmd = "stop" => OneWrite(stop(timer, exists, info_log, NowDT))
       /\ last'.cmd = "pause" => OneWrite(pause(timer, exists, info_log, NowDT))]_vars

\* start D on an existing file leaves the start that is not yet backdated on file first
StartWritesOnce ==
    [][(last'.cmd = "start" /\ exists)
          => \A st \in StartTimes, sec \in SecondsOfMinute :
                 StartStep(st, sec) => OneWrite(start(timer, exists, info_log, st, DT(now, sec)))]_vars

\* next from an open cycle leaves the stopped state without its Break on file first
NextWritesOnce ==
    [][(last'.cmd = "next" /\ exists /\ timer.status # Stopped)
          => OneWrite(next_timer(timer, exists, info_log, NowDT))]_vars



\* C30: invocations that run side by side are not synchronized: what an
\* invocation that completes successfully leaves on file is its command
\* applied to the state it loaded, whatever was saved since, so that of two
\* invocations that both succeed only the last writer's effect can remain
C30_LastWriterWins ==
    [][\A q \in Procs :
           (procs[q].pc = "loaded" /\ procs'[q].pc = "done" /\ procs'[q].msg = "")
           => timer' = Run(procs[q].cmd, procs[q].timer, info_log, NowDT).timer]_vars

\* pause and mode verbose both loaded the same Running state and both
\* succeeded; mode saved last and the file shows no pause
C30_Witness ==
    \E p, q \in Procs :
        /\ p # q
        /\ procs[p].pc = "done" /\ procs[p].cmd = "pause" /\ procs[p].msg = ""
        /\ procs[q].pc = "done" /\ procs[q].cmd = "mode" /\ procs[q].msg = ""
        /\ p \in procs[q].behind
        /\ procs[p].timer = procs[q].timer
        /\ procs[q].timer.status = Running
        /\ last = Command("mode", "")
        /\ timer = [procs[q].timer EXCEPT !.mode = Verbose]
        /\ timer.status = Running



\* the minute the replay of the whole timeline ends at, counted from anchor
ReplayEnd(anchor) == anchor + SpanSum(Timeline, Len(Timeline))

\* C31: with no mod edit, day_start plus the total_minutes (Work) and minutes
\* (Break) of the whole timeline is cycle_start while a cycle is open and the
\* stop marker while Stopped, so the replayed clock times are the real ones
C31_ReplayConsistency ==
    (exists /\ edits = 0)
    => /\ timer.status \in {Running, Paused}
          => /\ timer.day_start # <<>>
             /\ ReplayEnd(timer.day_start[1]) = timer.cycle_start_datetime_str[1]
       /\ (timer.status = Stopped /\ timer.stop_datetime_str # <<>>)
          => /\ timer.day_start # <<>>
             /\ ReplayEnd(timer.day_start[1]) = timer.stop_datetime_str[1]

\* the same replay while only start without a time, pause and stop were issued
ReplayOfPlainCycles ==
    (exists /\ plain)
    => /\ timer.status \in {Running, Paused}
          => /\ timer.day_start # <<>>
             /\ ReplayEnd(timer.day_start[1]) = timer.cycle_start_datetime_str[1]
       /\ (timer.status = Stopped /\ timer.stop_datetime_str # <<>>)
          => /\ timer.day_start # <<>>
             /\ ReplayEnd(timer.day_start[1]) = timer.stop_datetime_str[1]



\* C32: after every completed start, pause, stop, next and mod command the
\* activity log is the projection of the day_start and timeline on file: the
\* line stop appends is the line the projection emits for that Work entry and
\* every Break appended by start or next has its line
C32_LogIsProjection ==
    (exists /\ last.cmd \in {"start", "pause", "stop", "next", "mod", "mod start", "mod drop"})
    => info_log = regenerate_info_log(timer, NowDT)

\* C33: while a cycle is open and no mod edit has been made, the start time
\* the log command shows for the open cycle is cycle_start, also when earlier
\* Work entries of the timeline have paused_minutes
C33_HistoryShowsCycleStart ==
    (exists /\ timer.status \in {Running, Paused} /\ edits = 0)
    => history_cycle_start(timer, NowDT) = time_only(strptime(timer.cycle_start_datetime_str))

\* the same while only start without a time, pause and stop were issued
HistoryOfPlainCycles ==
    (exists /\ timer.status \in {Running, Paused} /\ plain)
    => history_cycle_start(timer, NowDT) = time_only(strptime(timer.cycle_start_datetime_str))

\* the same when no earlier Work entry has paused_minutes
HistoryWithoutEarlierPauses ==
    (exists /\ timer.status \in {Running, Paused} /\ plain /\ SumPaused(Timeline) = 0)
    => history_cycle_start(timer, NowDT) = time_only(strptime(timer.cycle_start_datetime_str))

====
